---- MODULE Spec2Model ----
(***************************************************************************)
(* The in-page half of the userscript engine, src/src/injected/web/index.js *)
(* One action is one event-loop task: a host message handled by onHandle,  *)
(* a document event, a timer, or one synchronous call a running script     *)
(* makes into its GM object.                                               *)
(*                                                                         *)
(* JavaScript strings whose characters matter (encoded values) are         *)
(* sequences of one-character strings.  Objects used as maps (store.values,*)
(* store.callbacks, a script's value mapping) are functions whose DOMAIN   *)
(* is the set of own keys; keys are ordinary names and numbers, none of    *)
(* them a name that Object.prototype defines.                              *)
(***************************************************************************)
EXTENDS Integers, Sequences, FiniteSets, TLC

VARIABLES
  state,           \* index.js:19   0 until the document is known to be ready
  doc,             \* document.readyState
  dcl,             \* TRUE once DOMContentLoaded has been dispatched
  loaded,          \* TRUE once onLoadScripts has replaced bridge.load
  received,        \* data.scripts as the host sent it
  scripts,         \* the descriptors of data.scripts, by position (= props.id),
                   \* as the program has left them
  start,           \* index.js:119  the three lists onLoadScripts closes over
  idle,            \* index.js:120
  end,             \* index.js:121
  timers,          \* pending setTimeout(run, 0, idle) timers
  injected,        \* the Inject messages posted so far, in order
  sandbox,         \* script id -> what wrapGM returned for it
  thisCtx,         \* script id -> the this its body was run with (runCode)
  values,          \* store.values
  callbacks,       \* store.callbacks
  lastCallbackId,  \* store.lastCallbackId
  uniq,            \* ids handed out by getUniqId('VMcb') so far
  noCallback,      \* TRUE once a PostCommand with requestId -1 was posted
  invoked,         \* callback id -> how often its continuation was invoked:
                   \* resolve by handleCallback, call by handlers.Callback
  styles,          \* callback id -> closure state of one GM_addStyle call
  commands,        \* store.commands: key -> the handler registered under it
  menuKeys,        \* the keys posted in RegisterMenu messages so far
  errors,          \* the reports runCode passed to console.error, in order
  page,            \* the real global object: property name -> value
  view,            \* the closures of the Protected Views' accessors,
                   \* <<script id, name>> -> [modified, value, first]
  last             \* the task that ran last: its call, its result, its posts

vars == <<state, doc, dcl, loaded, received, scripts, start, idle, end, timers, injected,
          sandbox, thisCtx, values, callbacks, lastCallbackId, uniq,
          noCallback, invoked, styles, commands, menuKeys, errors, page,
          view, last>>

schedVars == <<state, doc, dcl, loaded, received, scripts, start, idle, end, timers,
               injected, sandbox>>
storeVars == <<values, callbacks, lastCallbackId, uniq, noCallback, invoked,
               styles>>
pageVars == <<commands, menuKeys, errors, page, view>>

----------------------------------------------------------------------------
(* Bounds *)

MaxScripts == 4       \* longest data.scripts list of a scheduling run
MaxCallbacks == 2     \* addCallback registrations
MaxStyles == 1        \* GM_addStyle calls
MaxThen == 1          \* then() calls on one GM_addStyle thenable
MaxInvoked == 2       \* invocations counted per continuation
MaxNamed == 2         \* longest data.scripts list of scripts whose bodies throw
MaxLive == 3          \* longest data.scripts list of a run under fairness

----------------------------------------------------------------------------
(* Helpers on sequences and maps *)

Range(s) == {s[i] : i \in 1..Len(s)}

includes(arr, x) == \E i \in 1..Len(arr) : arr[i] = x

SeqsUpTo(S, n) == UNION {[1..k -> S] : k \in 0..n}

\* obj[key] = val on a map
Put(obj, key, val) == [k \in DOMAIN obj \cup {key} |->
                         IF k = key THEN val ELSE obj[k]]

\* delete obj[key]
Delete(obj, key) == [k \in DOMAIN obj \ {key} |-> obj[k]]

EmptyMap == <<>>

----------------------------------------------------------------------------
(* JavaScript values a script passes to and gets from the value API *)

JNull == [t |-> "null", n |-> 0, b |-> FALSE, s |-> <<>>]
JNum(k) == [t |-> "number", n |-> k, b |-> FALSE, s |-> <<>>]
JBool(x) == [t |-> "boolean", n |-> 0, b |-> x, s |-> <<>>]
JStr(str) == [t |-> "string", n |-> 0, b |-> FALSE, s |-> str]
JNaN == [t |-> "NaN", n |-> 0, b |-> FALSE, s |-> <<>>]
\* undefined: the one value here that JSON cannot carry
JUndefined == [t |-> "undefined", n |-> 0, b |-> FALSE, s |-> <<>>]

Quote == "\""
Backslash == "\\"
DigitChars == <<"0", "1", "2", "3", "4", "5", "6", "7", "8", "9">>
IsDigit(c) == \E d \in 1..10 : DigitChars[d] = c
DigitVal(c) == (CHOOSE d \in 1..10 : DigitChars[d] = c) - 1

\* a stored value that is null (GM_setValue of a value that does not dump)
RawNull == <<"NULL">>
\* what a dump that yields nothing returns (undefined)
NoDump == <<"UNDEFINED">>

RECURSIVE NumChars(_)
NumChars(k) == IF k < 10 THEN <<DigitChars[k + 1]>>
               ELSE NumChars(k \div 10) \o <<DigitChars[(k % 10) + 1]>>

RECURSIVE quote(_)
quote(str) == IF str = <<>> THEN <<>>
              ELSE (IF Head(str) \in {Quote, Backslash}
                    THEN <<Backslash, Head(str)>> ELSE <<Head(str)>>)
                   \o quote(Tail(str))

\* jsonDump (utils/helpers): the JSON text of a value, nothing for undefined
jsonDump(val) ==
  CASE val.t = "null" -> <<"n", "u", "l", "l">>
    [] val.t = "NaN" -> <<"n", "u", "l", "l">>
    [] val.t = "number" -> NumChars(val.n)
    [] val.t = "boolean" -> IF val.b THEN <<"t", "r", "u", "e">>
                            ELSE <<"f", "a", "l", "s", "e">>
    [] val.t = "string" -> <<Quote>> \o quote(val.s) \o <<Quote>>
    [] OTHER -> NoDump

RECURSIVE NumVal(_)
NumVal(str) == IF str = <<>> THEN 0
               ELSE 10 * NumVal(SubSeq(str, 1, Len(str) - 1))
                    + DigitVal(str[Len(str)])

AllDigits(str) == str # <<>> /\ \A i \in 1..Len(str) : IsDigit(str[i])

\* the characters between the quotes of a JSON string: [ok, s]
RECURSIVE unquote(_)
unquote(str) ==
  IF str = <<>> THEN [ok |-> TRUE, s |-> <<>>]
  ELSE IF Head(str) = Quote THEN [ok |-> FALSE, s |-> <<>>]
  ELSE IF Head(str) = Backslash
       THEN IF Len(str) >= 2 /\ str[2] \in {Quote, Backslash}
            THEN LET r == unquote(SubSeq(str, 3, Len(str)))
                 IN [ok |-> r.ok, s |-> <<str[2]>> \o r.s]
            ELSE [ok |-> FALSE, s |-> <<>>]
  ELSE LET r == unquote(Tail(str))
       IN [ok |-> r.ok, s |-> <<Head(str)>> \o r.s]

\* jsonLoad (utils/helpers): JSON.parse; ok = FALSE when it throws
jsonLoad(str) ==
  IF str = <<"n", "u", "l", "l">> THEN [ok |-> TRUE, val |-> JNull]
  ELSE IF str = <<"t", "r", "u", "e">> THEN [ok |-> TRUE, val |-> JBool(TRUE)]
  ELSE IF str = <<"f", "a", "l", "s", "e">> THEN [ok |-> TRUE, val |-> JBool(FALSE)]
  ELSE IF AllDigits(str) /\ (Len(str) = 1 \/ str[1] # "0")
       THEN [ok |-> TRUE, val |-> JNum(NumVal(str))]
  ELSE IF Len(str) >= 2 /\ str[1] = Quote /\ str[Len(str)] = Quote
          /\ unquote(SubSeq(str, 2, Len(str) - 1)).ok
       THEN [ok |-> TRUE, val |-> JStr(unquote(SubSeq(str, 2, Len(str) - 1)).s)]
  ELSE [ok |-> FALSE, val |-> JUndefined]

\* Number(val) of the deprecated 'n' tag
Number(str) == IF str = <<>> THEN JNum(0)
               ELSE IF AllDigits(str) THEN JNum(NumVal(str)) ELSE JNaN

\* index.js:206-211  dataDecoders: [known, ok, val]
dataDecoders(type, val) ==
  CASE type = "o" -> [known |-> TRUE, ok |-> jsonLoad(val).ok,
                      val |-> jsonLoad(val).val]
    [] type = "n" -> [known |-> TRUE, ok |-> TRUE, val |-> Number(val)]
    [] type = "b" -> [known |-> TRUE, ok |-> TRUE,
                      val |-> JBool(val = <<"t", "r", "u", "e">>)]
    [] OTHER -> [known |-> FALSE, ok |-> TRUE, val |-> JUndefined]

\* a JavaScript string, null or undefined used as a condition
Truthy(raw) == raw # <<>> /\ raw # RawNull /\ raw # NoDump

----------------------------------------------------------------------------
(* Objects, by identity *)

\* the real global object (window)
unsafeWindow == [obj |-> "global", of |-> 0]
\* index.js:459-560  the Protected View getWrapper builds for one script
getWrapper(sid) == [obj |-> "wrapper", of |-> sid]
\* index.js:189  the GM object wrapGM builds for one script
gm(sid) == [obj |-> "gm", of |-> sid]

\* index.js:237-427  the names gmFunctions defines
gmFunctions ==
  {"unsafeWindow", "GM_info", "GM_deleteValue", "GM_getValue", "GM_listValues",
   "GM_setValue", "GM_getResourceText", "GM_getResourceURL", "GM_addStyle",
   "GM_log", "GM_openInTab", "GM_registerMenuCommand",
   "GM_unregisterMenuCommand", "GM_xmlhttpRequest", "GM_download",
   "GM_notification", "GM_setClipboard", "AWE_engineStatus",
   "AWE_startJsPlayer", "AWE_getAvailablePlayers", "AWE_openInPlayer",
   "AWE_getDeviceId", "AWE_registerContextMenuCommand", "AWE_getLocale",
   "AWE_getConfig"}

\* a faulty variant of IsGrantNone: ["none"] is not taken for "no grant"
IsGrantNoneBroken(grant) == Len(grant) = 0

\* index.js:194  the test that selects "@grant none"
IsGrantNone(grant) ==
  Len(grant) = 0 \/ (Len(grant) = 1 /\ grant[1] = "none")

\* Array.prototype.pop, for its effect on the array
pop(arr) == IF arr = <<>> THEN <<>> ELSE SubSeq(arr, 1, Len(arr) - 1)

\* index.js:190-203  meta.grant as wrapGM leaves it
grantAfter(grant) ==
  LET g1 == IF IsGrantNone(grant) THEN pop(grant) ELSE grant
      g2 == IF includes(g1, "unsafeWindow") THEN g1 ELSE Append(g1, "unsafeWindow")
  IN IF includes(g2, "GM_info") THEN g2 ELSE Append(g2, "GM_info")

\* the names of a list in order, each once (defining a property twice keeps
\* its first place among the own property names)
RECURSIVE Distinct(_)
Distinct(arr) ==
  IF arr = <<>> THEN <<>>
  ELSE LET front == Distinct(SubSeq(arr, 1, Len(arr) - 1))
           x == arr[Len(arr)]
       IN IF includes(front, x) THEN front ELSE Append(front, x)

\* a faulty variant of wrapGM: every granted name is bound, implemented or not
wrapGMAnyName(sid, grant) ==
  [thisObj |-> IF IsGrantNone(grant) THEN gm(sid) ELSE getWrapper(sid),
   window |-> IF IsGrantNone(grant) THEN unsafeWindow ELSE getWrapper(sid),
   names |-> <<"window">> \o Distinct(grantAfter(grant)),
   grant |-> grantAfter(grant)]

\* a faulty variant of wrapGM: this is the GM object whatever the grants
wrapGMThisGm(sid, grant) ==
  [thisObj |-> gm(sid),
   window |-> IF IsGrantNone(grant) THEN unsafeWindow ELSE getWrapper(sid),
   names |-> <<"window">> \o
             SelectSeq(Distinct(grantAfter(grant)), LAMBDA nm : nm \in gmFunctions),
   grant |-> grantAfter(grant)]

\* index.js:186-432  wrapGM: the this object, the wrapper (its window
\* binding and its own property names) and meta.grant as it is left
wrapGM(sid, grant) ==
  [thisObj |-> IF IsGrantNone(grant) THEN gm(sid) ELSE getWrapper(sid),
   window |-> IF IsGrantNone(grant) THEN unsafeWindow ELSE getWrapper(sid),
   names |-> <<"window">> \o
             SelectSeq(Distinct(grantAfter(grant)), LAMBDA nm : nm \in gmFunctions),
   grant |-> grantAfter(grant)]

----------------------------------------------------------------------------
(* What the host sends in LoadScripts *)

\* a script descriptor without a name
Script(customRunAt, customRun_at, metaRunAt, metaRun_at, grant) ==
  [custom |-> [runAt |-> customRunAt, run_at |-> customRun_at, name |-> ""],
   meta |-> [runAt |-> metaRunAt, run_at |-> metaRun_at, grant |-> grant,
             name |-> ""]]

\* a script descriptor with its names
NamedScript(customName, metaName, runAt) ==
  [custom |-> [runAt |-> "", run_at |-> "", name |-> customName],
   meta |-> [runAt |-> runAt, run_at |-> "", grant |-> <<>>, name |-> metaName]]

\* scripts that differ in how they are named, one for each list
NamedScripts ==
  {NamedScript("", "", "document-start"),
   NamedScript("", "M", "document-end"),
   NamedScript("C", "M", "document-idle")}

\* "" stands for an absent field
RunAtFields ==
  {<<"", "", "document-start", "">>,
   <<"", "", "document-end", "">>,
   <<"", "", "", "document-idle">>,
   <<"document-idle", "", "document-start", "">>,
   <<"", "document-start", "document-end", "">>,
   <<"", "", "", "">>,
   <<"", "", "document-body", "">>}

\* scripts that differ in when they run
TimedScripts == {Script(f[1], f[2], f[3], f[4], <<>>) : f \in RunAtFields}

\* one script for each list
PhaseScripts ==
  {Script("", "", r, "", <<>>) :
     r \in {"document-start", "document-end", "document-idle"}}

GrantLists ==
  {<<>>, <<"none">>, <<"unsafeWindow">>, <<"none", "GM_info">>, <<"GM_bogus">>,
   <<"GM_addStyle">>, <<"AWE_getDeviceId">>}

\* scripts that differ in what they are granted
GrantedScripts == {Script("", "", "document-start", "", g) : g \in GrantLists}

ValueScript ==
  Script("", "", "document-start", "",
         <<"GM_getValue", "GM_setValue", "GM_deleteValue", "GM_listValues">>)
SetterScript == Script("", "", "document-start", "", <<"GM_setValue">>)
DeleterScript == Script("", "", "document-end", "", <<"GM_deleteValue">>)

Keys == {"k1", "k2"}

\* mappings of encoded values as the host has them
HostMappings ==
  {EmptyMap,
   [k \in {"k1", "k2"} |-> IF k = "k1" THEN <<"n", "1", "2">> ELSE <<"o", "{">>],
   [k \in {"k1", "k2"} |-> IF k = "k1" THEN <<"x", "y">>
                                        ELSE <<"b", "t", "r", "u", "e">>]}

\* data.values for n scripts: a mapping for some ids, nothing for the others
HostValues(n) == UNION {[ids -> HostMappings] : ids \in SUBSET (1..n)}

\* LoadScripts messages that differ in the timing of the scripts
TimedData ==
  {[scripts |-> ss, values |-> EmptyMap] : ss \in SeqsUpTo(PhaseScripts, MaxScripts)}
  \cup {[scripts |-> ss, values |-> EmptyMap] : ss \in SeqsUpTo(TimedScripts, 2)}

\* LoadScripts messages for the runs under fairness
LiveData ==
  {[scripts |-> ss, values |-> EmptyMap] : ss \in SeqsUpTo(PhaseScripts, MaxLive)}

\* LoadScripts messages that differ in the names of the scripts
NamedData ==
  {[scripts |-> ss, values |-> EmptyMap] : ss \in SeqsUpTo(NamedScripts, MaxNamed)}

\* LoadScripts messages that differ in the grants and the stored values
GrantedData ==
  {[scripts |-> <<s>>, values |-> EmptyMap] : s \in GrantedScripts}
  \cup {[scripts |-> <<ValueScript>>, values |-> v] : v \in HostValues(1)}
  \cup {[scripts |-> <<SetterScript, DeleterScript>>, values |-> v] :
          v \in {[id \in {1, 2} |-> [k \in {"k1"} |-> <<"o", "1">>]],
                  [id \in {2} |-> [k \in {"k1"} |-> <<"o", "1">>]]}}

----------------------------------------------------------------------------
(* onLoadScripts and the scheduler *)

\* index.js:137-138
runAtOf(script) ==
  IF script.custom.runAt # "" THEN script.custom.runAt
  ELSE IF script.custom.run_at # "" THEN script.custom.run_at
  ELSE IF script.meta.runAt # "" THEN script.meta.runAt
  ELSE script.meta.run_at

\* index.js:129-133  listMap, "" where it has no such key
listMap(runAt) ==
  CASE runAt = "document-start" -> "start"
    [] runAt = "document-idle" -> "idle"
    [] runAt = "document-end" -> "end"
    [] OTHER -> ""

\* a faulty variant of listOf: an unknown runAt selects the start list
listOfDefaultStart(script) ==
  IF listMap(runAtOf(script)) # "" THEN listMap(runAtOf(script)) ELSE "start"

\* index.js:139  const list = listMap[runAt] || end
listOf(script) ==
  IF listMap(runAtOf(script)) # "" THEN listMap(runAtOf(script)) ELSE "end"

\* index.js:135-142  the ids pushed to one list, in the order of data.scripts
pushed(ss, list) ==
  SelectSeq([i \in 1..Len(ss) |-> i], LAMBDA i : listOf(ss[i]) = list)

\* index.js:179  the Inject message of one script, and the task that posted it
Inject(ss, sid, task) ==
  [cmd |-> "Inject", sid |-> sid,
   argNames |-> wrapGM(sid, ss[sid].meta.grant).names, task |-> task]

\* index.js:150-183  run(list): buildCode for each script of the list, in order
run(ss, list, task) ==
  /\ injected' = injected \o [i \in 1..Len(list) |-> Inject(ss, list[i], task)]
  /\ sandbox' = [sid \in DOMAIN sandbox \cup Range(list) |->
                   IF sid \in Range(list)
                   THEN [thisObj |-> wrapGM(sid, ss[sid].meta.grant).thisObj,
                         window |-> wrapGM(sid, ss[sid].meta.grant).window,
                         names |-> wrapGM(sid, ss[sid].meta.grant).names]
                   ELSE sandbox[sid]]
  /\ scripts' = [sid \in 1..Len(ss) |->
                   IF sid \in Range(list)
                   THEN [ss[sid] EXCEPT !.meta.grant =
                           wrapGM(sid, ss[sid].meta.grant).grant]
                   ELSE ss[sid]]

\* a faulty variant of loadNow: the idle list is run with the end list
loadNowSameTask(endList, idleList) == endList \o idleList

\* index.js:125-128  the scripts bridge.load builds in its own task; the
\* idle list is left to the timer it sets
loadNow(endList, idleList) == endList

\* a faulty variant of onLoadScripts: bridge.load is called whatever the
\* state of the document
onLoadScriptsEager(data) ==
  /\ ~loaded
  /\ LET ss == data.scripts
         ready == 1
         s == pushed(ss, "start")
         i == pushed(ss, "idle")
         e == pushed(ss, "end")
     IN /\ loaded' = TRUE
        /\ received' = ss
        /\ state' = ready
        /\ values' = [sid \in (1..Len(ss)) \cap DOMAIN data.values |->
                        data.values[sid]]
        /\ start' = <<>>
        /\ IF ready = 1
           THEN /\ run(ss, s \o loadNow(e, i), "LoadScripts")
                /\ end' = <<>>
                /\ idle' = i
                /\ timers' = timers + 1
           ELSE /\ run(ss, s, "LoadScripts")
                /\ end' = e
                /\ idle' = i
                /\ timers' = timers
        /\ last' = [cmd |-> "LoadScripts"]
  /\ UNCHANGED <<doc, dcl, thisCtx, callbacks, lastCallbackId, uniq, noCallback,
                 invoked, styles>>
  /\ UNCHANGED pageVars

\* index.js:118-149
onLoadScripts(data) ==
  /\ ~loaded
  /\ LET ss == data.scripts
         ready == IF state = 0 /\ doc \in {"interactive", "complete"}
                  THEN 1 ELSE state
         s == pushed(ss, "start")
         i == pushed(ss, "idle")
         e == pushed(ss, "end")
     IN /\ loaded' = TRUE
        /\ received' = ss
        /\ state' = ready
        /\ values' = [sid \in (1..Len(ss)) \cap DOMAIN data.values |->
                        data.values[sid]]
        /\ start' = <<>>
        /\ IF ready = 1
           THEN /\ run(ss, s \o loadNow(e, i), "LoadScripts")
                /\ end' = <<>>
                /\ idle' = i
                /\ timers' = timers + 1
           ELSE /\ run(ss, s, "LoadScripts")
                /\ end' = e
                /\ idle' = i
                /\ timers' = timers
        /\ last' = [cmd |-> "LoadScripts"]
  /\ UNCHANGED <<doc, dcl, thisCtx, callbacks, lastCallbackId, uniq, noCallback,
                 invoked, styles>>
  /\ UNCHANGED pageVars

\* the document reaches readyState 'interactive'
DocInteractive ==
  /\ doc = "loading"
  /\ doc' = "interactive"
  /\ last' = [cmd |-> "readystatechange"]
  /\ UNCHANGED <<state, dcl, loaded, received, scripts, start, idle, end,
                 timers, injected, sandbox, thisCtx>>
  /\ UNCHANGED storeVars
  /\ UNCHANGED pageVars

\* index.js:24-28  the DOMContentLoaded listener and its microtask
DOMContentLoaded ==
  /\ doc = "interactive" /\ ~dcl
  /\ dcl' = TRUE
  /\ state' = 1
  /\ IF loaded
     THEN /\ run(scripts, loadNow(end, idle), "DOMContentLoaded")
          /\ end' = <<>>
          /\ idle' = idle
          /\ timers' = timers + 1
     ELSE UNCHANGED <<injected, sandbox, scripts, end, idle, timers>>
  /\ last' = [cmd |-> "DOMContentLoaded"]
  /\ UNCHANGED <<doc, loaded, received, start, thisCtx>>
  /\ UNCHANGED storeVars
  /\ UNCHANGED pageVars

\* the document reaches readyState 'complete'
DocComplete ==
  /\ doc = "interactive" /\ dcl
  /\ doc' = "complete"
  /\ last' = [cmd |-> "readystatechange"]
  /\ UNCHANGED <<state, dcl, loaded, received, scripts, start, idle, end,
                 timers, injected, sandbox, thisCtx>>
  /\ UNCHANGED storeVars
  /\ UNCHANGED pageVars

\* a faulty variant of Timer: run leaves the scripts it built in the list
TimerKeepsList ==
  /\ timers > 0
  /\ timers' = timers - 1
  /\ run(scripts, idle, "timer")
  /\ idle' = idle
  /\ last' = [cmd |-> "timer"]
  /\ UNCHANGED <<state, doc, dcl, loaded, received, start, end, thisCtx>>
  /\ UNCHANGED storeVars
  /\ UNCHANGED pageVars

\* index.js:127  a timer set by bridge.load fires: run(idle)
Timer ==
  /\ timers > 0
  /\ timers' = timers - 1
  /\ run(scripts, idle, "timer")
  /\ idle' = <<>>
  /\ last' = [cmd |-> "timer"]
  /\ UNCHANGED <<state, doc, dcl, loaded, received, start, end, thisCtx>>
  /\ UNCHANGED storeVars
  /\ UNCHANGED pageVars

\* index.js:171  the name of a script: script.custom.name || script.meta.name
\* || script.props.id
nameOf(script, sid) ==
  IF script.custom.name # "" THEN script.custom.name
  ELSE IF script.meta.name # "" THEN script.meta.name
  ELSE ToString(sid)

\* what a script's body throws: nothing, an Error object, a string
Thrown == {"", "Error", "string"}

\* a faulty variant of runCode: what the body throws is not caught
runCodeNoCatch(sid, e) ==
  /\ Cardinality(DOMAIN thisCtx) < Len(injected)
  /\ sid = injected[Cardinality(DOMAIN thisCtx) + 1].sid
  /\ thisCtx' = Put(thisCtx, sid, sandbox[sid].thisObj)
  /\ errors' = errors
  /\ last' = [cmd |-> "runCode", sid |-> sid, e |-> e, threw |-> (e # "")]
  /\ UNCHANGED schedVars
  /\ UNCHANGED storeVars
  /\ UNCHANGED <<commands, menuKeys, page, view>>

\* index.js:175-178, 562-573  the host calls the notify function of an
\* injected script: runCode applies the script's function to thisObj.
\* The host takes the Inject messages in the order they were posted.
\* e: what the body throws, "" when it returns; an Error has a message, a
\* thrown string has none.
runCode(sid, e) ==
  /\ Cardinality(DOMAIN thisCtx) < Len(injected)
  /\ sid = injected[Cardinality(DOMAIN thisCtx) + 1].sid
  /\ thisCtx' = Put(thisCtx, sid, sandbox[sid].thisObj)
  /\ errors' = IF e = "" THEN errors
                ELSE Append(errors, [msg |-> "Error running script: ",
                                     name |-> nameOf(scripts[sid], sid),
                                     e |-> e, message |-> (e = "Error")])
  /\ last' = [cmd |-> "runCode", sid |-> sid, e |-> e, threw |-> FALSE]
  /\ UNCHANGED schedVars
  /\ UNCHANGED storeVars
  /\ UNCHANGED <<commands, menuKeys, page, view>>

\* the script's body has been run and it holds the binding
Granted(sid, name) ==
  sid \in DOMAIN thisCtx /\ includes(sandbox[sid].names, name)

----------------------------------------------------------------------------
(* The callback registry *)

\* a request id of addCallback (a number)
ReqId(n) == [p |-> "req", n |-> n]
\* a callback id of registerCallback (getUniqId('VMcb'), a string)
CbId(n) == [p |-> "VMcb", n |-> n]

\* the ids a host message can carry: those the host was sent.  The host
\* answers a PostCommand by CommandResponse and an AddStyle by Callback, and
\* may answer late and more than once.  Among the request ids is the -1 that
\* postCommandWithCallback posts for a callback that is no function.
IssuedRequests == {ReqId(n) : n \in 1..lastCallbackId}
                  \cup (IF noCallback THEN {ReqId(-1)} ELSE {})
IssuedCallbacks == {CbId(n) : n \in 1..uniq}

\* an id used as a condition: 0 is falsy, a string id is not
TruthyId(id) == id.p = "VMcb" \/ id.n # 0

\* a faulty variant of addCallback: the id is the number of pending requests
\* plus one, so the id of a resolved request is handed out again
addCallbackReuse(callable) ==
  IF ~callable
  THEN [requestId |-> ReqId(-1), lastCallbackId |-> lastCallbackId,
        callbacks |-> callbacks]
  ELSE LET n == Cardinality({id \in DOMAIN callbacks : id.p = "req"}) + 1
       IN [requestId |-> ReqId(n),
           lastCallbackId |-> lastCallbackId + 1,
           callbacks |-> Put(callbacks, ReqId(n), [kind |-> "plain"])]

\* index.js:40-48  addCallback: [requestId, lastCallbackId, callbacks]
addCallback(callable) ==
  IF ~callable
  THEN [requestId |-> ReqId(-1), lastCallbackId |-> lastCallbackId,
        callbacks |-> callbacks]
  ELSE [requestId |-> ReqId(lastCallbackId + 1),
        lastCallbackId |-> lastCallbackId + 1,
        callbacks |-> Put(callbacks, ReqId(lastCallbackId + 1),
                          [kind |-> "plain"])]

\* Array.prototype.splice called with no argument: it removes nothing and
\* returns an empty array
splice(arr) == <<>>

\* index.js:311-314  the continuation GM_addStyle registers, run with the
\* id of the style element the host has inserted
styleArrived(style) ==
  LET called == Range(splice(style.callbacks))
  IN [el |-> "element",
      callbacks |-> style.callbacks,
      thens |-> [i \in 1..Len(style.thens) |->
                   IF i \in called THEN style.thens[i] + 1 ELSE style.thens[i]]]

\* invoking the function stored under id.  A plain entry is the script's own
\* continuation.  A one-shot entry is the wrapper of index.js:106-109: it
\* calls the continuation and deletes the entry when the continuation
\* returns; the continuation runs in the page's context and throws when
\* what it calls there throws.
\* cbs: the registry as the caller left it.
\* by: the handler that calls, "resolve" or "call".
invoke(id, cbs, throws, by) ==
  /\ invoked' = [invoked EXCEPT ![id][by] = @ + 1]
  /\ IF callbacks[id].kind = "oneshot"
     THEN IF throws
          THEN callbacks' = cbs /\ styles' = styles
          ELSE /\ callbacks' = Delete(cbs, id)
               /\ styles' = [styles EXCEPT ![id] = styleArrived(@)]
     ELSE callbacks' = cbs /\ styles' = styles

Invocations(id) == invoked[id].resolve + invoked[id].call

\* the continuation of a one-shot entry was called and threw
Threw(id, throws) ==
  id \in DOMAIN callbacks /\ callbacks[id].kind = "oneshot" /\ throws

\* a faulty variant of handleCallback: the entry is not deleted
handleCallbackNoDelete(requestId, throws) ==
  IF TruthyId(requestId) /\ requestId \in DOMAIN callbacks
  THEN /\ Invocations(requestId) < MaxInvoked
       /\ invoke(requestId, callbacks, throws, "resolve")
  ELSE UNCHANGED <<callbacks, invoked, styles>>

\* index.js:50-56  handleCallback
handleCallback(requestId, throws) ==
  IF TruthyId(requestId) /\ requestId \in DOMAIN callbacks
  THEN /\ Invocations(requestId) < MaxInvoked
       /\ invoke(requestId, Delete(callbacks, requestId), throws, "resolve")
  ELSE UNCHANGED <<callbacks, invoked, styles>>

\* index.js:90-93  handlers.CommandResponse
CommandResponse(requestId, throws) ==
  /\ handleCallback(requestId, throws)
  /\ last' = [cmd |-> "CommandResponse", id |-> requestId,
              hit |-> TruthyId(requestId) /\ requestId \in DOMAIN callbacks,
              threw |-> Threw(requestId, throws)]
  /\ UNCHANGED schedVars
  /\ UNCHANGED pageVars
  /\ UNCHANGED <<thisCtx, values, lastCallbackId, uniq, noCallback>>

\* index.js:72-75  handlers.Callback
Callback(callbackId, throws) ==
  /\ IF callbackId \in DOMAIN callbacks
     THEN /\ Invocations(callbackId) < MaxInvoked
          /\ invoke(callbackId, callbacks, throws, "call")
     ELSE UNCHANGED <<callbacks, invoked, styles>>
  /\ last' = [cmd |-> "Callback", id |-> callbackId,
              hit |-> callbackId \in DOMAIN callbacks,
              threw |-> Threw(callbackId, throws)]
  /\ UNCHANGED schedVars
  /\ UNCHANGED pageVars
  /\ UNCHANGED <<thisCtx, values, lastCallbackId, uniq, noCallback>>

\* index.js:58-64, 404-408  AWE_getDeviceId(callback): postCommandWithCallback
AWE_getDeviceId(sid, callable) ==
  /\ Granted(sid, "AWE_getDeviceId")
  /\ lastCallbackId < MaxCallbacks
  /\ LET r == addCallback(callable)
     IN /\ lastCallbackId' = r.lastCallbackId
        /\ callbacks' = r.callbacks
        /\ invoked' = IF callable THEN Put(invoked, r.requestId, [resolve |-> 0, call |-> 0])
                      ELSE invoked
        /\ last' = [cmd |-> "AWE_getDeviceId", sid |-> sid, id |-> r.requestId,
                    posted |-> <<[cmd |-> "PostCommand", requestId |-> r.requestId]>>]
  /\ UNCHANGED schedVars
  /\ UNCHANGED pageVars
  /\ UNCHANGED <<thisCtx, values, uniq, styles>>
  /\ noCallback' = (noCallback \/ ~callable)

\* index.js:104-111, 307-324  GM_addStyle(css): registerCallback and the
\* thenable's closure (callbacks, el)
GM_addStyle(sid) ==
  /\ Granted(sid, "GM_addStyle")
  /\ uniq < MaxStyles
  /\ LET callbackId == CbId(uniq + 1)
     IN /\ uniq' = uniq + 1
        /\ callbacks' = Put(callbacks, callbackId, [kind |-> "oneshot"])
        /\ invoked' = Put(invoked, callbackId, [resolve |-> 0, call |-> 0])
        /\ styles' = Put(styles, callbackId,
                         [el |-> "false", callbacks |-> <<>>, thens |-> <<>>])
        /\ last' = [cmd |-> "GM_addStyle", sid |-> sid, id |-> callbackId,
                    posted |-> <<[cmd |-> "AddStyle", callbackId |-> callbackId]>>]
  /\ UNCHANGED schedVars
  /\ UNCHANGED pageVars
  /\ UNCHANGED <<thisCtx, values, lastCallbackId, noCallback>>

\* index.js:318-321  then(callback) of the thenable of one GM_addStyle call;
\* thens[i] counts the invocations of the callback of the i-th then()
then(callbackId) ==
  /\ callbackId \in DOMAIN styles
  /\ Len(styles[callbackId].thens) < MaxThen
  /\ LET style == styles[callbackId]
         i == Len(style.thens) + 1
     IN /\ styles' = [styles EXCEPT ![callbackId] =
                        IF style.el # "false"
                        THEN [style EXCEPT !.thens = Append(@, 1)]
                        ELSE [style EXCEPT !.thens = Append(@, 0),
                                           !.callbacks = Append(@, i)]]
        /\ last' = [cmd |-> "then", id |-> callbackId, i |-> i,
                    late |-> style.el # "false"]
  /\ UNCHANGED schedVars
  /\ UNCHANGED pageVars
  /\ UNCHANGED <<thisCtx, values, callbacks, lastCallbackId, uniq, noCallback,
                 invoked>>

----------------------------------------------------------------------------
(* The value store *)

\* the values a script stores
SetValues == {JNum(0), JNum(12), JBool(FALSE), JNull, JStr(<<>>),
              JStr(<<Quote>>), JUndefined}

\* the default a script passes to GM_getValue
Default == [t |-> "default", n |-> 0, b |-> FALSE, s |-> <<>>]

\* index.js:433-435  loadValues() yields a mapping
HasValues(sid) == sid \in DOMAIN values

\* index.js:247-264  GM_getValue(key, def) on the script's mapping
GM_getValue(value, key, def) ==
  LET raw == IF key \in DOMAIN value THEN value[key] ELSE NoDump
  IN IF Truthy(raw)
     THEN LET type == Head(raw)
              handle == dataDecoders(type, Tail(raw))
          IN IF handle.known /\ handle.ok THEN handle.val ELSE JStr(Tail(raw))
     ELSE def

\* a faulty variant of rawOf: the deprecated 'n' tag is written
rawOfLegacy(val) ==
  IF Truthy(jsonDump(val)) THEN <<"n">> \o jsonDump(val) ELSE RawNull

\* index.js:272-273  the encoded value GM_setValue stores
rawOf(val) ==
  IF Truthy(jsonDump(val)) THEN <<"o">> \o jsonDump(val) ELSE RawNull

\* index.js:445-453  dumpValue(key, value): the UpdateValue message
dumpValue(sid, key, value) ==
  [cmd |-> "UpdateValue", id |-> sid, keys |-> {key}, value |-> value]

\* a call that ends in a TypeError: the script has no mapping
Throws(name, sid) ==
  /\ last' = [cmd |-> name, sid |-> sid, threw |-> TRUE, posted |-> <<>>]
  /\ UNCHANGED values

\* index.js:270-278
GM_setValue(sid, key, val) ==
  /\ Granted(sid, "GM_setValue")
  /\ IF HasValues(sid)
     THEN /\ values' = [values EXCEPT ![sid] = Put(@, key, rawOf(val))]
          /\ last' = [cmd |-> "GM_setValue", sid |-> sid, threw |-> FALSE,
                      posted |-> <<dumpValue(sid, key, rawOf(val))>>]
     ELSE Throws("GM_setValue", sid)
  /\ UNCHANGED schedVars
  /\ UNCHANGED pageVars
  /\ UNCHANGED <<thisCtx, callbacks, lastCallbackId, uniq, noCallback, invoked,
                 styles>>

\* index.js:240-246
GM_deleteValue(sid, key) ==
  /\ Granted(sid, "GM_deleteValue")
  /\ IF HasValues(sid)
     THEN /\ values' = [values EXCEPT ![sid] = Delete(@, key)]
          /\ last' = [cmd |-> "GM_deleteValue", sid |-> sid, threw |-> FALSE,
                      posted |-> <<dumpValue(sid, key, NoDump)>>]
     ELSE Throws("GM_deleteValue", sid)
  /\ UNCHANGED schedVars
  /\ UNCHANGED pageVars
  /\ UNCHANGED <<thisCtx, callbacks, lastCallbackId, uniq, noCallback, invoked,
                 styles>>

\* index.js:247-264  a script calls GM_getValue(key, Default)
GetValue(sid, key) ==
  /\ Granted(sid, "GM_getValue")
  /\ IF HasValues(sid)
     THEN /\ last' = [cmd |-> "GM_getValue", sid |-> sid, key |-> key,
                      threw |-> FALSE, posted |-> <<>>,
                      result |-> GM_getValue(values[sid], key, Default)]
          /\ UNCHANGED values
     ELSE Throws("GM_getValue", sid)
  /\ UNCHANGED schedVars
  /\ UNCHANGED pageVars
  /\ UNCHANGED <<thisCtx, callbacks, lastCallbackId, uniq, noCallback, invoked,
                 styles>>

\* index.js:265-269
GM_listValues(sid) ==
  /\ Granted(sid, "GM_listValues")
  /\ IF HasValues(sid)
     THEN /\ last' = [cmd |-> "GM_listValues", sid |-> sid,
                      threw |-> FALSE, posted |-> <<>>,
                      result |-> DOMAIN values[sid]]
          /\ UNCHANGED values
     ELSE Throws("GM_listValues", sid)
  /\ UNCHANGED schedVars
  /\ UNCHANGED pageVars
  /\ UNCHANGED <<thisCtx, callbacks, lastCallbackId, uniq, noCallback, invoked,
                 styles>>

\* the updates the host pushes: script id -> its new mapping
PushedMapping == [k \in {"k2"} |-> <<"o", "t", "r", "u", "e">>]
PushedUpdates ==
  {[id \in {1} |-> EmptyMap],
   [id \in {1} |-> PushedMapping],
   [id \in {2} |-> PushedMapping],
   [id \in {1, 2} |-> IF id = 1 THEN PushedMapping ELSE EmptyMap]}

\* a faulty variant of UpdatedValues: an id without an entry gets one
UpdatedValuesCreate(updates) ==
  /\ loaded
  /\ values' = [id \in DOMAIN values \cup DOMAIN updates |->
                  IF id \in DOMAIN updates THEN updates[id] ELSE values[id]]
  /\ last' = [cmd |-> "UpdatedValues"]
  /\ UNCHANGED schedVars
  /\ UNCHANGED pageVars
  /\ UNCHANGED <<thisCtx, callbacks, lastCallbackId, uniq, noCallback, invoked,
                 styles>>

\* index.js:79-84  handlers.UpdatedValues
UpdatedValues(updates) ==
  /\ loaded
  /\ values' = [id \in DOMAIN values |->
                  IF id \in DOMAIN updates THEN updates[id] ELSE values[id]]
  /\ last' = [cmd |-> "UpdatedValues"]
  /\ UNCHANGED schedVars
  /\ UNCHANGED pageVars
  /\ UNCHANGED <<thisCtx, callbacks, lastCallbackId, uniq, noCallback, invoked,
                 styles>>

----------------------------------------------------------------------------
(* Menu commands *)

\* the captions scripts register, as strings of characters
Captions == {<<"X">>, <<"2", ":", "X">>}

\* a faulty variant of menuKey: the caption alone is the key
menuKeyCaption(id, cap) == cap

\* index.js:342-343, 350-351  const key = `${id}:${cap}`
menuKey(id, cap) == NumChars(id) \o <<":">> \o cap

\* index.js:340-347  GM_registerMenuCommand(cap, func); the handler func is
\* known by the script and the caption it was registered with
GM_registerMenuCommand(sid, cap) ==
  /\ Granted(sid, "GM_registerMenuCommand")
  /\ commands' = Put(commands, menuKey(sid, cap), [sid |-> sid, cap |-> cap])
  /\ menuKeys' = menuKeys \cup {[key |-> menuKey(sid, cap), sid |-> sid]}
  /\ last' = [cmd |-> "GM_registerMenuCommand", sid |-> sid,
              posted |-> <<[cmd |-> "RegisterMenu", key |-> menuKey(sid, cap),
                            cap |-> cap]>>]
  /\ UNCHANGED schedVars
  /\ UNCHANGED storeVars
  /\ UNCHANGED <<thisCtx, errors, page, view>>

\* index.js:348-355  GM_unregisterMenuCommand(cap)
GM_unregisterMenuCommand(sid, cap) ==
  /\ Granted(sid, "GM_unregisterMenuCommand")
  /\ commands' = Delete(commands, menuKey(sid, cap))
  /\ last' = [cmd |-> "GM_unregisterMenuCommand", sid |-> sid,
              posted |-> <<[cmd |-> "UnregisterMenu", key |-> menuKey(sid, cap),
                            cap |-> cap]>>]
  /\ UNCHANGED schedVars
  /\ UNCHANGED storeVars
  /\ UNCHANGED <<thisCtx, menuKeys, errors, page, view>>

\* index.js:68-71  handlers.Command(data); called: the handlers it invoked
Command(data) ==
  /\ last' = [cmd |-> "Command", key |-> data,
              called |-> IF data \in DOMAIN commands THEN <<commands[data]>>
                         ELSE <<>>]
  /\ UNCHANGED schedVars
  /\ UNCHANGED storeVars
  /\ UNCHANGED <<thisCtx, commands, menuKeys, errors, page, view>>

\* scripts that register and unregister menu commands
MenuScript ==
  Script("", "", "document-start", "",
         <<"GM_registerMenuCommand", "GM_unregisterMenuCommand">>)
MenuData ==
  {[scripts |-> ss, values |-> EmptyMap] :
     ss \in {<<MenuScript>>, <<MenuScript, MenuScript>>}}

----------------------------------------------------------------------------
(* The Protected View *)

\* bridge.props: names of the real global object, as strings of characters:
\* an ordinary one, an event-handler-like one, and one getWrapper has bound
\* as a method before it comes to wrap the properties
Props == {<<"f", "o", "o">>, <<"o", "n", "f", "o", "o">>, <<"s", "t", "o", "p">>}

\* index.js:464-527  names the wrapper has before the properties are wrapped
WrapperOwn == {<<"b", "r", "o", "w", "s", "e", "r">>, <<"e", "v", "a", "l">>,
               <<"s", "t", "o", "p">>}

\* index.js:554-558  the accessor getWrapper defines for a name
Accessor(name) ==
  IF name \in WrapperOwn THEN "none"
  ELSE IF SubSeq(name, 1, 2) = <<"o", "n">> THEN "reacted"
  ELSE "protected"

\* the values of a property: two ordinary values and the real global object
PageValues == {"a", "b", "global"}

\* index.js:534, 546  value === unsafeWindow ? wrapper : value
Shown(value) == IF value = "global" THEN "wrapper" ELSE value

\* index.js:529-530  the closure of a protected accessor; first is the
\* result of the first read since the property was last written, "unread"
\* before that read
FreshCell == [modified |-> FALSE, value |-> "undefined", first |-> "unread"]
Cell(sid, name) ==
  IF <<sid, name>> \in DOMAIN view THEN view[<<sid, name>>] ELSE FreshCell

\* a faulty variant of protectedGet: the first read is kept as a snapshot
protectedGetSnapshot(cell, real) ==
  LET value == IF ~cell.modified /\ cell.first = "unread" THEN real
               ELSE cell.value
  IN [value |-> value, result |-> Shown(value)]

\* index.js:532-535  get() of a protected property: [value, result]
protectedGet(cell, real) ==
  LET value == IF ~cell.modified THEN real ELSE cell.value
  IN [value |-> value, result |-> Shown(value)]

\* the script of sid has run and its window binding is a Protected View
HasView(sid) ==
  sid \in DOMAIN thisCtx /\ sandbox[sid].window = getWrapper(sid)

\* the script reads window[name] through its view
ViewGet(sid, name) ==
  /\ HasView(sid)
  /\ Accessor(name) # "none"
  /\ IF Accessor(name) = "protected"
     THEN LET r == protectedGet(Cell(sid, name), page[name])
          IN /\ view' = Put(view, <<sid, name>>,
                            [modified |-> Cell(sid, name).modified,
                             value |-> r.value,
                             first |-> IF Cell(sid, name).first = "unread"
                                       THEN r.result ELSE Cell(sid, name).first])
             /\ last' = [cmd |-> "get", sid |-> sid, name |-> name,
                         result |-> r.result]
     ELSE /\ view' = view
          /\ last' = [cmd |-> "get", sid |-> sid, name |-> name,
                      result |-> Shown(page[name])]
  /\ UNCHANGED schedVars
  /\ UNCHANGED storeVars
  /\ UNCHANGED <<thisCtx, commands, menuKeys, errors, page>>

\* index.js:536-539, 548-550  the script assigns window[name] = val through
\* its view
ViewSet(sid, name, val) ==
  /\ HasView(sid)
  /\ Accessor(name) # "none"
  /\ IF Accessor(name) = "protected"
     THEN /\ view' = Put(view, <<sid, name>>,
                         [modified |-> TRUE, value |-> val, first |-> "unread"])
          /\ page' = page
     ELSE /\ view' = view
          /\ page' = [page EXCEPT ![name] = val]
  /\ last' = [cmd |-> "set", sid |-> sid, name |-> name]
  /\ UNCHANGED schedVars
  /\ UNCHANGED storeVars
  /\ UNCHANGED <<thisCtx, commands, menuKeys, errors>>

\* the page assigns a property of the real global object
PageSet(name, val) ==
  /\ Accessor(name) # "none"
  /\ page[name] # val
  /\ page' = [page EXCEPT ![name] = val]
  /\ last' = [cmd |-> "pageSet"]
  /\ UNCHANGED schedVars
  /\ UNCHANGED storeVars
  /\ UNCHANGED <<thisCtx, commands, menuKeys, errors, view>>

\* a script with a Protected View, alone and after a script without one
ViewScript == Script("", "", "document-start", "", <<"GM_addStyle">>)
ViewData ==
  {[scripts |-> ss, values |-> EmptyMap] :
     ss \in {<<ViewScript>>,
             <<Script("", "", "document-start", "", <<"none">>), ViewScript>>}}

----------------------------------------------------------------------------
Init ==
  /\ state = 0
  /\ \E d \in {<<"loading", FALSE>>, <<"interactive", FALSE>>,
               <<"interactive", TRUE>>, <<"complete", TRUE>>} :
       doc = d[1] /\ dcl = d[2]
  /\ loaded = FALSE
  /\ received = <<>>
  /\ scripts = <<>>
  /\ start = <<>> /\ idle = <<>> /\ end = <<>>
  /\ timers = 0
  /\ injected = <<>>
  /\ sandbox = EmptyMap
  /\ thisCtx = EmptyMap
  /\ values = EmptyMap
  /\ callbacks = EmptyMap
  /\ lastCallbackId = 0
  /\ uniq = 0
  /\ noCallback = FALSE
  /\ invoked = EmptyMap
  /\ styles = EmptyMap
  /\ commands = EmptyMap
  /\ menuKeys = {}
  /\ errors = <<>>
  /\ page = [name \in Props |-> "a"]
  /\ view = EmptyMap
  /\ last = [cmd |-> "initialize"]

LoadScripts == \E data \in GrantedData : onLoadScripts(data)
LoadTimedScripts == \E data \in TimedData : onLoadScripts(data)
\* the host notifies a script whose body returns
Notify == \E sid \in DOMAIN sandbox : runCode(sid, "")

HostCommandResponse ==
  \E id \in IssuedRequests, throws \in BOOLEAN : CommandResponse(id, throws)
HostCallback ==
  \E id \in IssuedCallbacks, throws \in BOOLEAN : Callback(id, throws)
HostUpdatedValues == \E updates \in PushedUpdates : UpdatedValues(updates)
CallGetDeviceId ==
  \E sid \in DOMAIN thisCtx, callable \in BOOLEAN : AWE_getDeviceId(sid, callable)
CallAddStyle == \E sid \in DOMAIN thisCtx : GM_addStyle(sid)
CallThen == \E id \in DOMAIN styles : then(id)
CallSetValue ==
  \E sid \in DOMAIN thisCtx, key \in Keys, val \in SetValues :
    GM_setValue(sid, key, val)
CallDeleteValue ==
  \E sid \in DOMAIN thisCtx, key \in Keys : GM_deleteValue(sid, key)
CallGetValue == \E sid \in DOMAIN thisCtx, key \in Keys : GetValue(sid, key)
CallListValues == \E sid \in DOMAIN thisCtx : GM_listValues(sid)

Next ==
  \/ LoadScripts
  \/ DocInteractive
  \/ DOMContentLoaded
  \/ DocComplete
  \/ Timer
  \/ Notify
  \/ HostCommandResponse
  \/ HostCallback
  \/ HostUpdatedValues
  \/ CallGetDeviceId
  \/ CallAddStyle
  \/ CallThen
  \/ CallSetValue
  \/ CallDeleteValue
  \/ CallGetValue
  \/ CallListValues

Spec == Init /\ [][Next]_vars

\* the scheduler alone, on lists of scripts that differ in their timing
NextSched ==
  \/ LoadTimedScripts
  \/ DocInteractive
  \/ DOMContentLoaded
  \/ DocComplete
  \/ Timer
  \/ Notify

SpecSched == Init /\ [][NextSched]_vars

\* the scheduler where what is pending happens: a timer that was set fires
\* and the DOMContentLoaded event of a document that is interactive is
\* dispatched
LoadLiveScripts == \E data \in LiveData : onLoadScripts(data)

NextSchedLive ==
  \/ LoadLiveScripts
  \/ DocInteractive
  \/ DOMContentLoaded
  \/ DocComplete
  \/ Timer
  \/ Notify

SpecSchedLive ==
  Init /\ [][NextSchedLive]_vars /\ WF_vars(Timer) /\ WF_vars(DOMContentLoaded)

LoadNamedScripts == \E data \in NamedData : onLoadScripts(data)
\* the host notifies a script whose body returns or throws
NotifyThrowing == \E sid \in DOMAIN sandbox, e \in Thrown : runCode(sid, e)

\* the scheduler with scripts whose bodies throw
NextRun ==
  \/ LoadNamedScripts
  \/ DocInteractive
  \/ DOMContentLoaded
  \/ DocComplete
  \/ Timer
  \/ NotifyThrowing

SpecRun == Init /\ [][NextRun]_vars

LoadViewScripts == \E data \in ViewData : onLoadScripts(data)
CallViewGet == \E sid \in DOMAIN thisCtx, name \in Props : ViewGet(sid, name)
CallViewSet ==
  \E sid \in DOMAIN thisCtx, name \in Props, val \in PageValues :
    ViewSet(sid, name, val)
PageAssigns == \E name \in Props, val \in PageValues : PageSet(name, val)

\* a script and the page at work on the same properties
NextView ==
  \/ LoadViewScripts
  \/ Notify
  \/ CallViewGet
  \/ CallViewSet
  \/ PageAssigns

SpecView == Init /\ [][NextView]_vars

LoadMenuScripts == \E data \in MenuData : onLoadScripts(data)
CallRegisterMenuCommand ==
  \E sid \in DOMAIN thisCtx, cap \in Captions : GM_registerMenuCommand(sid, cap)
CallUnregisterMenuCommand ==
  \E sid \in DOMAIN thisCtx, cap \in Captions : GM_unregisterMenuCommand(sid, cap)
\* the host sends Command with a key it got in a RegisterMenu message, also
\* one that was unregistered since
HostCommand == \E m \in menuKeys : Command(m.key)

\* scripts with menu commands
NextMenu ==
  \/ LoadMenuScripts
  \/ Notify
  \/ CallRegisterMenuCommand
  \/ CallUnregisterMenuCommand
  \/ HostCommand

SpecMenu == Init /\ [][NextMenu]_vars

----------------------------------------------------------------------------
(* Claims *)

\* the list a received script is pushed to
ListOfSid(sid) == listOf(received[sid])
Rank(sid) == CASE ListOfSid(sid) = "start" -> 0
               [] ListOfSid(sid) = "end" -> 1
               [] OTHER -> 2
InjectedSids == [i \in 1..Len(injected) |-> injected[i].sid]
InjectedBefore(i) == {injected[j].sid : j \in 1..(i - 1)}
SidsOf(list) == {sid \in 1..Len(received) : ListOfSid(sid) = list}

\* C1: for one LoadScripts message the Inject messages are posted in the order
\* start scripts (as listed), end scripts (as listed), idle scripts (as
\* listed); start scripts in the LoadScripts task, end scripts never in a
\* timer task, idle scripts only in a timer task and only after every end
\* script; once the document is ready and the timers have fired the Inject
\* messages are exactly start, end, idle.
C1_InjectOrder ==
  /\ \A i, j \in 1..Len(injected) :
       i < j => \/ Rank(injected[i].sid) < Rank(injected[j].sid)
                \/ /\ Rank(injected[i].sid) = Rank(injected[j].sid)
                   /\ injected[i].sid < injected[j].sid
  /\ \A i \in 1..Len(injected) :
       CASE ListOfSid(injected[i].sid) = "start" ->
              injected[i].task = "LoadScripts"
         [] ListOfSid(injected[i].sid) = "end" ->
              /\ injected[i].task \in {"LoadScripts", "DOMContentLoaded"}
              /\ SidsOf("start") \subseteq InjectedBefore(i)
         [] OTHER ->
              /\ injected[i].task = "timer"
              /\ SidsOf("start") \cup SidsOf("end") \subseteq InjectedBefore(i)
  /\ (loaded /\ state = 1 /\ timers = 0) =>
       InjectedSids = pushed(received, "start") \o pushed(received, "end")
                      \o pushed(received, "idle")

\* C1 witness: [A(start), B(end), C(idle), D(end)] was injected as A, B, D, C
C1_Witness ==
  /\ Len(received) = 4
  /\ [i \in 1..4 |-> ListOfSid(i)] = <<"start", "end", "idle", "end">>
  /\ InjectedSids = <<1, 2, 4, 3>>

\* C2: a CommandResponse whose requestId has no entry invokes nothing and
\* leaves the registry unchanged, and handleCallback invokes the continuation
\* of one id at most once however often the id is resolved.
C2_ResolveOnce ==
  /\ [](\A id \in DOMAIN invoked : invoked[id].resolve <= 1)
  /\ [][(last'.cmd = "CommandResponse" /\ ~last'.hit)
          => UNCHANGED <<callbacks, invoked, styles>>]_vars

\* C2 witness: an id that was resolved has just been resolved again
C2_Witness ==
  /\ last.cmd = "CommandResponse" /\ ~last.hit
  /\ last.id \in DOMAIN invoked
  /\ invoked[last.id].resolve = 1

\* C3 (as claimed): the continuation of a one-shot registration runs at most
\* once per callback id, also when the host delivers the Callback twice and
\* when the continuation throws.
C3_OneShotAtMostOnce ==
  \A id \in DOMAIN invoked : id.p = "VMcb" => Invocations(id) <= 1

\* C4 (as claimed): once the host's style callback has arrived, every
\* continuation passed to then() has been invoked.
C4_ThenInvoked ==
  \A id \in DOMAIN styles :
    styles[id].el # "false" =>
      \A i \in 1..Len(styles[id].thens) : styles[id].thens[i] >= 1

\* the values of SetValues that JSON carries
JsonValues == SetValues \ {JUndefined}

C6_UpdatedValues ==
  [][\A updates \in PushedUpdates :
       UpdatedValues(updates)
         => /\ DOMAIN values' = DOMAIN values
            /\ \A id \in DOMAIN values :
                 values'[id] = IF id \in DOMAIN updates THEN updates[id]
                               ELSE values[id]]_vars

\* C6 witness: before any script ran, an update for scripts 1 and 2 emptied
\* the mapping of script 2 and made none for script 1, which had none
C6_Witness ==
  /\ last.cmd = "UpdatedValues"
  /\ Len(received) = 2
  /\ thisCtx = EmptyMap
  /\ DOMAIN values = {2}
  /\ values[2] = EmptyMap

\* C7 (as claimed): no call of the value API fails, whether or not the host
\* supplied values for the script.
C7_ValueApiNeverFails ==
  last.cmd \in {"GM_getValue", "GM_listValues", "GM_setValue", "GM_deleteValue"}
    => ~last.threw

\* C8 (as claimed): GM_setValue and GM_deleteValue by script sid change only
\* the entry of key in the mapping of sid and post exactly one UpdateValue
\* message, with the id of sid and that one key.
C8_SetDeleteFrame ==
  [][\A sid \in DOMAIN thisCtx, key \in Keys :
       ((\E val \in SetValues : GM_setValue(sid, key, val))
        \/ GM_deleteValue(sid, key))
         => /\ Len(last'.posted) = 1
            /\ last'.posted[1].cmd = "UpdateValue"
            /\ last'.posted[1].id = sid
            /\ last'.posted[1].keys = {key}
            /\ DOMAIN values' = DOMAIN values
            /\ \A other \in DOMAIN values \ {sid} : values'[other] = values[other]
            /\ \A k \in Keys \ {key} :
                 /\ k \in DOMAIN values'[sid] <=> k \in DOMAIN values[sid]
                 /\ k \in DOMAIN values[sid] => values'[sid][k] = values[sid][k]]_vars

\* the grant list the host sent is empty or exactly ["none"]
ReceivedNone(sid) ==
  received[sid].meta.grant = <<>> \/ received[sid].meta.grant = <<"none">>

\* C9: the window binding is the real global object when the grant list is
\* empty or exactly ["none"], and otherwise the script's Protected View,
\* another object.
C9_WindowBinding ==
  \A sid \in DOMAIN sandbox :
    IF ReceivedNone(sid)
    THEN sandbox[sid].window = unsafeWindow
    ELSE /\ sandbox[sid].window = getWrapper(sid)
         /\ sandbox[sid].window # unsafeWindow

\* C9 witness: a script granted exactly ["none"] has the real global object
C9_Witness ==
  \E sid \in DOMAIN sandbox :
    /\ received[sid].meta.grant = <<"none">>
    /\ sandbox[sid].window = unsafeWindow

\* C10 (as claimed): this is the GM object when a capability beyond "none"
\* is in effect, and the real global object otherwise.
C10_ThisAsClaimed ==
  \A sid \in DOMAIN thisCtx :
    thisCtx[sid] = IF ReceivedNone(sid) THEN unsafeWindow ELSE gm(sid)

\* C10 (amended): this is the GM object when the grant list is empty or
\* exactly ["none"], and otherwise the Protected View that is also the
\* sandbox's window binding.
C10_This ==
  \A sid \in DOMAIN thisCtx :
    IF ReceivedNone(sid)
    THEN thisCtx[sid] = gm(sid)
    ELSE thisCtx[sid] = getWrapper(sid) /\ thisCtx[sid] = sandbox[sid].window

\* C10 witness: a script granted GM_addStyle was run with its Protected View
C10_Witness ==
  \E sid \in DOMAIN thisCtx :
    /\ received[sid].meta.grant = <<"GM_addStyle">>
    /\ thisCtx[sid] = getWrapper(sid)

C12_MenuKeys ==
  [][/\ \A m \in menuKeys :
          Command(m.key)
            => \A i \in 1..Len(last'.called) : last'.called[i].sid = m.sid
     /\ \A sid \in DOMAIN thisCtx, cap \in Captions :
          (GM_registerMenuCommand(sid, cap) \/ GM_unregisterMenuCommand(sid, cap))
            => \A k \in DOMAIN commands :
                 commands[k].sid # sid
                   => k \in DOMAIN commands' /\ commands'[k] = commands[k]]_vars

\* C12 witness: scripts 1 and 2 registered caption X, script 2 unregistered
\* it, and a Command for the key of script 1 invoked the handler of script 1
C12_Witness ==
  /\ last.cmd = "Command"
  /\ last.called = <<[sid |-> 1, cap |-> <<"X">>]>>
  /\ \E m \in menuKeys : m.sid = 2 /\ m.key \notin DOMAIN commands
  /\ \A k \in DOMAIN commands : commands[k] = [sid |-> 1, cap |-> <<"X">>]

\* the name of a received script: its custom name, else its meta name, else
\* its id
C13_Name(sid) ==
  IF received[sid].custom.name # "" THEN received[sid].custom.name
  ELSE IF received[sid].meta.name # "" THEN received[sid].meta.name
  ELSE ToString(sid)

ProtectedNames == {name \in Props : Accessor(name) = "protected"}

\* C14 (as claimed): once a protected property has been read, every later
\* read returns what that first read returned, whatever the page does to
\* the real global object, until the property is written through the view.
C14_Snapshot ==
  [][\A sid \in DOMAIN thisCtx, name \in ProtectedNames :
       (ViewGet(sid, name) /\ Cell(sid, name).first # "unread")
         => last'.result = Cell(sid, name).first]_vars

\* C14 (amended): a read of a protected property returns the real global
\* object's current value as long as the property was not written through
\* the view, and the written value afterwards (the view itself where that
\* value is the real global object); a write through the view leaves the
\* real global object alone, and what the page assigns does not reach a
\* written property.
C14_LiveUntilWritten ==
  [][/\ \A sid \in DOMAIN thisCtx, name \in ProtectedNames :
          /\ ViewGet(sid, name)
               => /\ last'.result =
                       IF Cell(sid, name).modified
                       THEN Shown(Cell(sid, name).value)
                       ELSE Shown(page[name])
                  /\ page' = page
          /\ \A val \in PageValues :
               ViewSet(sid, name, val)
                 => /\ page' = page
                    /\ view'[<<sid, name>>].modified
                    /\ view'[<<sid, name>>].value = val
     /\ \A name \in Props, val \in PageValues :
          PageSet(name, val) => view' = view]_vars

\* C14 witness: a read returned b, the value the page assigned after an
\* earlier read had returned a, and the script had written nothing
C14_Witness ==
  /\ last.cmd = "get" /\ last.result = "b"
  /\ Accessor(last.name) = "protected"
  /\ Cell(last.sid, last.name).first = "a"
  /\ ~Cell(last.sid, last.name).modified

\* C15: while the document is loading, only document-start scripts have
\* been injected; a document-end or document-idle script is injected only
\* once the document is known to be ready; and as soon as LoadScripts has
\* been handled every document-start script is injected, by that very task,
\* whatever the ready state.
C15_NotWhileLoading ==
  /\ doc = "loading" =>
       \A i \in 1..Len(injected) : ListOfSid(injected[i].sid) = "start"
  /\ \A i \in 1..Len(injected) :
       ListOfSid(injected[i].sid) # "start" => state = 1 /\ doc # "loading"
  /\ loaded =>
       \A sid \in SidsOf("start") :
         \E i \in 1..Len(injected) :
           injected[i].sid = sid /\ injected[i].task = "LoadScripts"

\* C15 witness: LoadScripts was handled while the document is loading; the
\* start script is injected, the end and the idle script wait in their lists
C15_Witness ==
  /\ loaded /\ doc = "loading" /\ ~dcl
  /\ [i \in 1..Len(received) |-> ListOfSid(i)] = <<"end", "start", "idle">>
  /\ InjectedSids = <<2>>
  /\ end = <<1>> /\ idle = <<3>>

\* C16 (as claimed): every continuation stored in the registry, whichever
\* handler serves it, has been invoked at most once, and once it has been
\* invoked its entry is gone.
C16_ConsumedOnce ==
  \A id \in DOMAIN invoked :
    /\ Invocations(id) <= 1
    /\ Invocations(id) >= 1 => id \notin DOMAIN callbacks

\* C17: a registration with a callable gets the id lastCallbackId + 1, which
\* is greater than every request id handed out before, whether that one is
\* still pending or was resolved and removed, and it is stored under that
\* id; a registration with a non-callable gets -1 and leaves the registry
\* and the counter as they were.
C17_FreshIds ==
  [][\A sid \in DOMAIN thisCtx, callable \in BOOLEAN :
       AWE_getDeviceId(sid, callable)
         => IF callable
            THEN /\ last'.id = ReqId(lastCallbackId + 1)
                 /\ lastCallbackId' = lastCallbackId + 1
                 /\ \A id \in DOMAIN invoked : id.p = "req" => id.n < last'.id.n
                 /\ last'.id \notin DOMAIN callbacks
                 /\ last'.id \in DOMAIN callbacks'
                 /\ last'.posted[1].requestId = last'.id
            ELSE /\ last'.id = ReqId(-1)
                 /\ last'.posted[1].requestId = ReqId(-1)
                 /\ UNCHANGED <<callbacks, lastCallbackId>>]_vars

\* C17 witness: id 2 was handed out after id 1 had been resolved and removed
C17_Witness ==
  /\ last.cmd = "AWE_getDeviceId" /\ last.id = ReqId(2)
  /\ ReqId(1) \notin DOMAIN callbacks
  /\ invoked[ReqId(1)].resolve = 1

\* the first non-empty of custom.runAt, custom['run-at'], meta.runAt and
\* meta['run-at'] of a received script, "" when all are absent
C18_Chosen(sid) ==
  LET c == received[sid].custom
      m == received[sid].meta
      given == SelectSeq(<<c.runAt, c.run_at, m.runAt, m.run_at>>,
                         LAMBDA x : x # "")
  IN IF given = <<>> THEN "" ELSE given[1]

\* the phase the claim gives a received script
C18_Phase(sid) ==
  IF C18_Chosen(sid) \in {"document-start", "document-idle", "document-end"}
  THEN C18_Chosen(sid) ELSE "document-end"

C18_InjectedBy(sid, tasks) ==
  \E i \in 1..Len(injected) : injected[i].sid = sid /\ injected[i].task \in tasks

C19_Kind(build) == build.window.obj

\* C19 (as claimed): after a script's sandbox was built its meta.grant holds
\* the elements the host sent, and a build from the descriptor as it is now
\* gives the same kind of window binding and the same bindings as the build
\* that was made.
C19_DescriptorUnchanged ==
  \A sid \in DOMAIN sandbox :
    /\ scripts[sid].meta.grant = received[sid].meta.grant
    /\ C19_Kind(wrapGM(sid, scripts[sid].meta.grant)) = C19_Kind(sandbox[sid])
    /\ wrapGM(sid, scripts[sid].meta.grant).names = sandbox[sid].names

\* the Inject messages posted for a script
C20_Injections(sid) == {i \in 1..Len(injected) : injected[i].sid = sid}

\* C20: no script is ever injected twice, and once LoadScripts is handled
\* and the document has left 'loading' every listed script comes to be
\* injected exactly once.
C20_ExactlyOnce ==
  /\ [](\A sid \in 1..Len(received) : Cardinality(C20_Injections(sid)) <= 1)
  /\ ((loaded /\ doc # "loading")
        ~> (\A sid \in 1..Len(received) : Cardinality(C20_Injections(sid)) = 1))

\* C20 witness: bridge.load ran twice (one of its two timers is pending
\* still), at LoadScripts for an interactive document and at
\* DOMContentLoaded, and each of the three scripts is injected once
C20_Witness ==
  /\ last.cmd = "timer" /\ timers = 1 /\ dcl
  /\ [i \in 1..Len(received) |-> ListOfSid(i)] = <<"idle", "end", "start">>
  /\ [i \in 1..Len(injected) |-> injected[i].task]
       = <<"LoadScripts", "LoadScripts", "timer">>
  /\ InjectedSids = <<3, 2, 1>>

====
